---- MODULE Spec2Model ----
(***************************************************************************)
(* Model of the browser control-connection code of magentic-ui:            *)
(*   src/src/magentic_ui/tools/playwright/browser/base_playwright_browser.py *)
(* check_connectivity (the TCP probe) and connect_browser_with_retry (the  *)
(* retry/backoff loop around playwright.chromium.connect), and the browser *)
(* resource built on them: PlaywrightBrowser (__aenter__, __aexit__),      *)
(* DockerPlaywrightBrowser (_start, _close, browser_context) and the       *)
(* _start of VncDockerPlaywrightBrowser.                                   *)
(*                                                                         *)
(* Time is counted in ticks of 0.1 s: the timeout argument (whole seconds) *)
(* is 10 * timeout ticks, the jitter random.uniform(0.1, 0.5) is 1..4      *)
(* ticks.  A text (an address) is a sequence of chunks; the chunks are cut *)
(* so that the substring "localhost" only ever occurs as a chunk of its    *)
(* own, which makes `in`, str.replace and str.startswith chunk operations. *)
(***************************************************************************)
EXTENDS Integers, Sequences, FiniteSets, TLC

VARIABLES run, twin, browser, life, world, factory

vars == <<run, twin, browser, life, world, factory>>

(***************************************************************************)
(* Bounds of the model.                                                    *)
(***************************************************************************)
\* the largest timeout argument tried (seconds)
MaxTimeout == 32

\* how long a slow connect attempt takes to fail or succeed (ticks)
SlowConnect == 25

\* how many times the caller enters a scope on the same instance
MaxEnters == 2

\* how many times __aexit__ is called directly, outside a scope
MaxDirectExits == 1

\* how many steps another task is followed for during one container call
MaxOtherSteps == 1

(***************************************************************************)
(* Program constants (seconds, counts).                                    *)
(***************************************************************************)
MaxRetriesCap == 15

BackoffCap == 3

InitialProbeTimeout == 3

FinalProbeTimeout == 1

DefaultPort == 80

Ticks(seconds) == 10 * seconds

Min(a, b) == IF a < b THEN a ELSE b

(***************************************************************************)
(* Text operations on chunk sequences.                                     *)
(***************************************************************************)
Contains(text, tok) == \E i \in 1..Len(text) : text[i] = tok

IndexOf(text, tok) ==
  IF Contains(text, tok)
  THEN CHOOSE i \in 1..Len(text) : text[i] = tok /\ \A j \in 1..(i-1) : text[j] # tok
  ELSE 0

\* str.replace(old, new): every occurrence
Replace(text, old, new) ==
  [i \in 1..Len(text) |-> IF text[i] = old THEN new ELSE text[i]]

\* str.startswith(prefix)
StartsWith(text, prefix) ==
  Len(text) >= Len(prefix) /\ SubSeq(text, 1, Len(prefix)) = prefix

\* the literal "ws://magentic-ui-"
ContainerPrefix == <<"ws://", "magentic-ui-">>

\* str.replace(old, new, 1): the first occurrence only
ReplaceFirst(text, old, new) ==
  [i \in 1..Len(text) |-> IF i = IndexOf(text, old) THEN new ELSE text[i]]

\* variant of ForceIPv4: only the first occurrence of localhost is rewritten
ForceIPv4_FirstOnly(url) ==
  IF Contains(url, "localhost") /\ ~StartsWith(url, ContainerPrefix)
  THEN ReplaceFirst(url, "localhost", "127.0.0.1")
  ELSE url

\* variant of ForceIPv4: the sibling-container prefix is not looked at
ForceIPv4_NoPrefixCheck(url) ==
  IF Contains(url, "localhost")
  THEN Replace(url, "localhost", "127.0.0.1")
  ELSE url

\* variant of ForceIPv4: only a host token equal to localhost is rewritten
ForceIPv4_HostOnly(url) ==
  IF Len(url) >= 2 /\ url[2] = "localhost" /\ ~StartsWith(url, ContainerPrefix)
  THEN [url EXCEPT ![2] = "127.0.0.1"]
  ELSE url

\* lines 48-53: the address that is dialled
ForceIPv4(url) ==
  IF Contains(url, "localhost") /\ ~StartsWith(url, ContainerPrefix)
  THEN Replace(url, "localhost", "127.0.0.1")
  ELSE url

(***************************************************************************)
(* urllib.parse.urlparse on a chunk sequence <<scheme, netloc..., "/",     *)
(* path...>>: the netloc runs from the second chunk to the first "/", the  *)
(* host name is the netloc up to the first ":", the port text what follows.*)
(***************************************************************************)
Netloc(url) ==
  LET s == IndexOf(url, "/")
  IN  SubSeq(url, 2, IF s = 0 THEN Len(url) ELSE s - 1)

Hostname(url) ==
  LET n == Netloc(url)
      c == IndexOf(n, ":")
  IN  SubSeq(n, 1, IF c = 0 THEN Len(n) ELSE c - 1)

PortText(url) ==
  LET n == Netloc(url)
      c == IndexOf(n, ":")
  IN  IF c = 0 THEN <<>> ELSE SubSeq(n, c + 1, Len(n))

\* the port chunks that are decimal numbers, with their values
PortValue ==
  ("57600" :> 57600) @@ ("37367" :> 37367) @@ ("443" :> 443) @@ ("80" :> 80)

\* parsed.port raises ValueError when the port text is not a number
PortParses(url) ==
  LET p == PortText(url)
  IN  p = <<>> \/ (Len(p) = 1 /\ p[1] \in DOMAIN PortValue)

\* line 57: parsed.hostname or "localhost"
HostOf(url) == IF Hostname(url) = <<>> THEN <<"localhost">> ELSE Hostname(url)

\* line 58: parsed.port or 80
PortOf(url) ==
  LET p == PortText(url)
  IN  IF p = <<>> \/ PortValue[p[1]] = 0 THEN DefaultPort ELSE PortValue[p[1]]

(***************************************************************************)
(* check_connectivity, lines 21-36.  env is what the socket layer does in  *)
(* this call: the stage at which it raises ("none": it does not), the      *)
(* exception class, and the value connect_ex returns.                      *)
(***************************************************************************)
SockEnvs ==
  { [stage |-> "none",       exc |-> "none",         result |-> 0],
    [stage |-> "none",       exc |-> "none",         result |-> 111],
    [stage |-> "socket",     exc |-> "OSError",      result |-> 0],
    [stage |-> "connect_ex", exc |-> "gaierror",     result |-> 0],
    [stage |-> "connect_ex", exc |-> "UnicodeError", result |-> 0] }

\* the classes `except Exception` catches (CancelledError, KeyboardInterrupt
\* and SystemExit derive from BaseException only)
IsException(cls) ==
  cls \in {"OSError", "gaierror", "UnicodeError", "ConnectionError",
           "TimeoutError", "ValueError", "Exception"}

\* variant of ProbeCatches: the handler narrowed to `except OSError`
ProbeCatches_OSErrorOnly(cls) ==
  cls \in {"OSError", "gaierror", "ConnectionError", "TimeoutError"}

\* line 35: except Exception
ProbeCatches(cls) == IsException(cls)

check_connectivity(env) ==
  IF env.stage # "none"
  THEN IF ProbeCatches(env.exc)
       THEN [raised |-> "none", reachable |-> FALSE,
             message |-> [kind |-> "test failed", detail |-> env.exc, code |-> 0]]
       ELSE [raised |-> env.exc, reachable |-> FALSE,
             message |-> [kind |-> "none", detail |-> "none", code |-> 0]]
  ELSE IF env.result = 0
       THEN [raised |-> "none", reachable |-> TRUE,
             message |-> [kind |-> "successful", detail |-> "none", code |-> 0]]
       ELSE [raised |-> "none", reachable |-> FALSE,
             message |-> [kind |-> "failed with error code", detail |-> "none",
                          code |-> env.result]]

NoProbe ==
  [env |-> [stage |-> "none", exc |-> "none", result |-> 0], raised |-> "none",
   reachable |-> FALSE, message |-> [kind |-> "none", detail |-> "none", code |-> 0]]

\* one call of check_connectivity with its argument and its result
ProbeCall(env) ==
  LET res == check_connectivity(env)
  IN  [env |-> env, raised |-> res.raised, reachable |-> res.reachable,
       message |-> res.message]

(***************************************************************************)
(* The inputs of connect_browser_with_retry and of its environment.        *)
(***************************************************************************)
Urls ==
  { <<"ws://", "localhost", ":", "57600", "/", "test-path">>,
    <<"ws://", "127.0.0.1", ":", "57600", "/", "test-path">>,
    <<"ws://", "my-custom-host", ":", "57600", "/", "test-path">>,
    <<"ws://", "magentic-ui-", "vnc-browser", ":", "37367", "/", "test-path">>,
    <<"ws://", "magentic-ui-", "localhost", ":", "37367", "/", "localhost">>,
    <<"ws://", "example.com", ":", "57600", "/", "localhost", "/", "test-path">>,
    <<"ws://", "localhost", ":", "57600", "/", "localhost">>,
    <<"wss://", "magentic-ui-", "localhost", ":", "443", "/", "secure-path">>,
    <<"ws://", "localhost">>,
    <<"ws://">>,
    <<"ws://", "localhost", ":", "not-a-port">> }

\* the address the long timeouts are tried with
LongUrl == <<"ws://", "localhost", ":", "57600", "/", "test-path">>

ShortTimeouts == {-1, 0, 1, 2, 3, 5, 8}

LongTimeouts == {30, MaxTimeout}

\* the error classes the connect primitive fails with (all derive from Exception)
ConnectErrors == {"ConnectionError", "OSError", "TimeoutError", "Exception"}

ConnectDurations == {0, SlowConnect}

ProbeDurations == {0, Ticks(InitialProbeTimeout)}

FinalProbeDurations == {0, Ticks(FinalProbeTimeout)}

\* line 84: random.uniform(0.1, 0.5), in ticks
Jitters == 1..4

(***************************************************************************)
(* The activation of connect_browser_with_retry: its arguments, its locals,*)
(* the clock it reads, what it called (probes, connects, dialled, sleeps), *)
(* what it logged (forced, skipped) and how it ended (outcome, error_msg). *)
(***************************************************************************)
NoOutcome == [kind |-> "none", origin |-> "none"]

NoMsg == [attempts |-> 0, over |-> 0, note |-> FALSE, host |-> <<>>, port |-> 0]

Frame(url, timeout) ==
  [ pc |-> "entry", original_url |-> url, url |-> url, forced |-> FALSE,
    timeout |-> timeout, host |-> <<>>, port |-> 0,
    now |-> 0, start_time |-> 0, probe_end |-> 0, retry_count |-> 0,
    max_retries |-> 0,
    can_connect |-> FALSE, final_connectivity |-> FALSE, last_probe |-> NoProbe,
    probes |-> 0, connects |-> 0, dialled |-> {}, delay |-> 0,
    sleeps |-> 0, skipped |-> 0, cancelled |-> FALSE,
    outcome |-> NoOutcome, error_msg |-> NoMsg ]

\* the value of twin when only one activation is followed
NoRun == Frame(<<>>, 0)

\* variant of MaxRetries: the cap of 15 is missing
MaxRetries_Uncapped(timeout) == timeout \div 2

\* variant of MaxRetries: every call is allowed one attempt at least
MaxRetries_AtLeastOne(timeout) ==
  IF Min(timeout \div 2, MaxRetriesCap) < 1 THEN 1
  ELSE Min(timeout \div 2, MaxRetriesCap)

\* line 62
MaxRetries(timeout) == Min(timeout \div 2, MaxRetriesCap)

\* lines 46-62: address rewriting, parsing, start_time, retry_count, max_retries
Enter(r) ==
  LET url == ForceIPv4(r.original_url)
  IN  IF ~PortParses(url)
      THEN [r EXCEPT !.pc = "raised", !.url = url, !.forced = (url # r.original_url),
                     !.outcome = [kind |-> "ValueError", origin |-> "urlparse"]]
      ELSE [r EXCEPT !.pc = "probe", !.url = url, !.forced = (url # r.original_url),
                     !.host = HostOf(url), !.port = PortOf(url),
                     !.start_time = r.now, !.retry_count = 0,
                     !.max_retries = MaxRetries(r.timeout)]

\* variant of InitialProbe: an unreachable server ends the function without
\* any connect attempt
InitialProbe_Gating(r, env, dt) ==
  LET p == ProbeCall(env)
  IN  [r EXCEPT !.pc = IF p.reachable THEN "loop" ELSE "final_probe",
                !.now = r.now + dt, !.probe_end = r.now + dt,
                !.probes = r.probes + 1,
                !.last_probe = p, !.can_connect = p.reachable]

\* variant of InitialProbe: start_time is taken when the probe has ended
InitialProbe_ClockAfterProbe(r, env, dt) ==
  LET p == ProbeCall(env)
  IN  IF p.raised # "none"
      THEN [r EXCEPT !.pc = "raised", !.now = r.now + dt, !.probes = r.probes + 1,
                     !.probe_end = r.now + dt, !.last_probe = p,
                     !.outcome = [kind |-> p.raised, origin |-> "probe"]]
      ELSE [r EXCEPT !.pc = "loop", !.now = r.now + dt, !.probes = r.probes + 1,
                     !.probe_end = r.now + dt, !.start_time = r.now + dt,
                     !.last_probe = p, !.can_connect = p.reachable]

\* lines 64-70: the initial diagnostic probe; probe_end notes the clock when it
\* has ended (start_time was taken before it, line 60)
InitialProbe(r, env, dt) ==
  LET p == ProbeCall(env)
  IN  IF p.raised # "none"
      THEN [r EXCEPT !.pc = "raised", !.now = r.now + dt, !.probes = r.probes + 1,
                     !.probe_end = r.now + dt, !.last_probe = p,
                     !.outcome = [kind |-> p.raised, origin |-> "probe"]]
      ELSE [r EXCEPT !.pc = "loop", !.now = r.now + dt, !.probes = r.probes + 1,
                     !.probe_end = r.now + dt,
                     !.last_probe = p, !.can_connect = p.reachable]

\* variant of LoopCond: only the clock ends the loop
LoopCond_TimeOnly(r) == r.now - r.start_time < Ticks(r.timeout)

\* variant of LoopCond: both comparisons are inclusive
LoopCond_Inclusive(r) ==
  /\ r.now - r.start_time <= Ticks(r.timeout)
  /\ r.retry_count <= r.max_retries

\* variant of LoopCond: the clock is not looked at
LoopCond_RetriesOnly(r) == r.retry_count < r.max_retries

\* line 72: the loop condition
LoopCond(r) ==
  /\ r.now - r.start_time < Ticks(r.timeout)
  /\ r.retry_count < r.max_retries

\* variant of BackoffDelay: the base delay keeps doubling
BackoffDelay_Uncapped(retry_count, jitter) ==
  Ticks(2 ^ (retry_count - 1)) + jitter

\* lines 83-85: base_delay + jitter, in ticks
BackoffDelay(retry_count, jitter) ==
  Ticks(Min(2 ^ (retry_count - 1), BackoffCap)) + jitter

\* variant of Catches: a bare `except:`, which catches BaseException too
Catches_BaseException(cls) == TRUE

\* variant of Catches: the handler narrowed to `except ConnectionError`
Catches_ConnectionErrorOnly(cls) == cls = "ConnectionError"

\* line 76: except Exception
Catches(cls) == IsException(cls)

\* variant of ConnectReturns: retry_count counts the attempt that succeeded too
ConnectReturns_CountsAttempt(r, dt) ==
  [r EXCEPT !.pc = "returned", !.now = r.now + dt, !.connects = r.connects + 1,
            !.retry_count = r.retry_count + 1,
            !.dialled = r.dialled \cup {r.url},
            !.outcome = [kind |-> "Browser", origin |-> "connect"]]

\* line 75, the connect primitive returns a browser: return it
ConnectReturns(r, dt) ==
  [r EXCEPT !.pc = "returned", !.now = r.now + dt, !.connects = r.connects + 1,
            !.dialled = r.dialled \cup {r.url},
            !.outcome = [kind |-> "Browser", origin |-> "connect"]]

\* variant of ConnectRaises: the delay is awaited also when it ends exactly at
\* the deadline
ConnectRaises_SleepInclusive(r, cls, dt, jitter) ==
  LET now         == r.now + dt
      retry_count == r.retry_count + 1
      elapsed     == now - r.start_time
      delay       == BackoffDelay(retry_count, jitter)
      called      == [r EXCEPT !.now = now, !.connects = r.connects + 1,
                               !.dialled = r.dialled \cup {r.url},
                               !.cancelled = (r.cancelled \/ cls = "CancelledError")]
  IN  IF ~Catches(cls)
      THEN [called EXCEPT !.pc = "raised",
                          !.outcome = [kind |-> cls, origin |-> "connect"]]
      ELSE IF elapsed + delay <= Ticks(r.timeout)
           THEN [called EXCEPT !.pc = "sleeping", !.retry_count = retry_count,
                               !.delay = delay, !.sleeps = r.sleeps + 1]
           ELSE [called EXCEPT !.pc = "loop", !.retry_count = retry_count,
                               !.skipped = r.skipped + 1]

\* variant of ConnectRaises: the delay is awaited after every failed attempt
ConnectRaises_AlwaysSleeps(r, cls, dt, jitter) ==
  LET now         == r.now + dt
      retry_count == r.retry_count + 1
      elapsed     == now - r.start_time
      delay       == BackoffDelay(retry_count, jitter)
      called      == [r EXCEPT !.now = now, !.connects = r.connects + 1,
                               !.dialled = r.dialled \cup {r.url},
                               !.cancelled = (r.cancelled \/ cls = "CancelledError")]
  IN  IF ~Catches(cls)
      THEN [called EXCEPT !.pc = "raised",
                          !.outcome = [kind |-> cls, origin |-> "connect"]]
      ELSE IF TRUE
           THEN [called EXCEPT !.pc = "sleeping", !.retry_count = retry_count,
                               !.delay = delay, !.sleeps = r.sleeps + 1]
           ELSE [called EXCEPT !.pc = "loop", !.retry_count = retry_count,
                               !.skipped = r.skipped + 1]

\* variant of ConnectRaises: the failed attempt is not counted
ConnectRaises_NoCount(r, cls, dt, jitter) ==
  LET now         == r.now + dt
      retry_count == r.retry_count + 1
      elapsed     == now - r.start_time
      delay       == BackoffDelay(retry_count, jitter)
      called      == [r EXCEPT !.now = now, !.connects = r.connects + 1,
                               !.dialled = r.dialled \cup {r.url},
                               !.cancelled = (r.cancelled \/ cls = "CancelledError")]
  IN  IF ~Catches(cls)
      THEN [called EXCEPT !.pc = "raised",
                          !.outcome = [kind |-> cls, origin |-> "connect"]]
      ELSE IF elapsed + delay < Ticks(r.timeout)
           THEN [called EXCEPT !.pc = "sleeping", !.retry_count = r.retry_count,
                               !.delay = delay, !.sleeps = r.sleeps + 1]
           ELSE [called EXCEPT !.pc = "loop", !.retry_count = r.retry_count,
                               !.skipped = r.skipped + 1]

\* lines 75-91, the connect primitive raises cls after dt
ConnectRaises(r, cls, dt, jitter) ==
  LET now         == r.now + dt
      retry_count == r.retry_count + 1
      elapsed     == now - r.start_time
      delay       == BackoffDelay(retry_count, jitter)
      called      == [r EXCEPT !.now = now, !.connects = r.connects + 1,
                               !.dialled = r.dialled \cup {r.url},
                               !.cancelled = (r.cancelled \/ cls = "CancelledError")]
  IN  IF ~Catches(cls)
      THEN [called EXCEPT !.pc = "raised",
                          !.outcome = [kind |-> cls, origin |-> "connect"]]
      ELSE IF elapsed + delay < Ticks(r.timeout)
           THEN [called EXCEPT !.pc = "sleeping", !.retry_count = retry_count,
                               !.delay = delay, !.sleeps = r.sleeps + 1]
           ELSE [called EXCEPT !.pc = "loop", !.retry_count = retry_count,
                               !.skipped = r.skipped + 1]

\* line 89: asyncio.sleep(delay) returns
Wake(r) ==
  [r EXCEPT !.pc = "loop", !.now = r.now + r.delay, !.delay = 0]

\* line 89: asyncio.sleep(delay) is cancelled, CancelledError leaves the function
SleepCancelled(r) ==
  [r EXCEPT !.pc = "raised", !.delay = 0, !.cancelled = TRUE,
            !.outcome = [kind |-> "CancelledError", origin |-> "sleep"]]

\* line 72 evaluates to false: the loop is left
LeaveLoop(r) == [r EXCEPT !.pc = "final_probe"]

\* variant of ErrorMsg: the note follows the initial probe
ErrorMsg_InitialProbe(r, final_connectivity) ==
  [attempts |-> r.retry_count, over |-> r.timeout, note |-> ~r.can_connect,
   host |-> r.host, port |-> r.port]

\* lines 97-99: the text of the timeout error
ErrorMsg(r, final_connectivity) ==
  [attempts |-> r.retry_count, over |-> r.timeout, note |-> ~final_connectivity,
   host |-> r.host, port |-> r.port]

\* lines 93-101: the final probe and the timeout error
FinalProbe(r, env, dt) ==
  LET p == ProbeCall(env)
  IN  IF p.raised # "none"
      THEN [r EXCEPT !.pc = "raised", !.now = r.now + dt, !.probes = r.probes + 1,
                     !.last_probe = p,
                     !.outcome = [kind |-> p.raised, origin |-> "probe"]]
      ELSE [r EXCEPT !.pc = "raised", !.now = r.now + dt, !.probes = r.probes + 1,
                     !.last_probe = p, !.final_connectivity = p.reachable,
                     !.error_msg = ErrorMsg(r, p.reachable),
                     !.outcome = [kind |-> "TimeoutError", origin |-> "terminal"]]

(***************************************************************************)
(* The browser resource: PlaywrightBrowser (lines 104-163),                *)
(* DockerPlaywrightBrowser (lines 166-261) and VncDockerPlaywrightBrowser  *)
(* (vnc_docker_playwright_browser.py).  browser holds the attributes of    *)
(* one instance, world the objects outside it (containers, playwright      *)
(* drivers, browser connections, browsing contexts, each numbered in the   *)
(* order of creation), life the position of the one task that uses the     *)
(* instance, the locals of _start and a log of what was called.            *)
(***************************************************************************)
\* Python's None in an attribute that otherwise holds the number of an object
None == 0

\* an attribute that no statement has assigned: reading it is an AttributeError
Unset == -1

\* line 245: if retries >= 3
LaunchAttempts == 3

\* line 257: timeout=45
StartTimeout == 45

\* "docker": a subclass that inherits DockerPlaywrightBrowser._start;
\* "vnc": VncDockerPlaywrightBrowser
Variants == {"docker", "vnc"}

\* MAGENTIC_UI_PLAYWRIGHT_HOST: its default and a name the operator may set
VncHosts == {"127.0.0.1", "localhost"}

\* lines 111-112, 171-175 (self._browser is assigned by _start only)
NewBrowser(variant, host) ==
  [ variant |-> variant, host |-> host, generation |-> 0, _closed |-> FALSE,
    _container |-> None, _playwright |-> None, _browser |-> Unset,
    _context |-> None ]

NoRaise == [kind |-> "none", origin |-> "none", attempt |-> 0]

NotAccessed == [raises |-> "none", value |-> None, starts_done |-> -1]

NewLife ==
  [ pc |-> "idle", scope |-> "none", exit_kind |-> "none", retries |-> 0,
    raised |-> NoRaise, enters |-> 0, exits |-> 0, direct_exits |-> 0,
    starts_done |-> 0,
    launches |-> 0, regenerations |-> 0, dials |-> 0, dialled |-> {},
    closes |-> 0, closes_done |-> 0, last_close |-> "none",
    held |-> {}, attempted |-> {}, scope_closed |-> FALSE,
    graced |-> FALSE, in_call |-> "none", loop_free |-> TRUE, others |-> 0,
    got |-> NotAccessed ]

NewWorld ==
  [ containers |-> <<>>, playwrights |-> <<>>, browsers |-> <<>>,
    contexts |-> <<>> ]

\* the values of browser, life and world when no instance is followed
NoBrowser == NewBrowser("none", "none")

NoLife == [NewLife EXCEPT !.pc = "none"]

NoWorld == NewWorld

\* browser_address: vnc_docker_playwright_browser.py line 82 with the default
\* scheme, port and path; for the inheriting variant an address on localhost
\* whose path grows by one chunk with every regeneration
browser_address(b) ==
  IF b.variant = "vnc"
  THEN <<"ws://", b.host, ":", "37367", "/", "ws">>
  ELSE <<"ws://", "localhost", ":", "37367", "/", "path">>
         \o [i \in 1..b.generation |-> "+"]

\* _generate_new_browser_address: `pass` in the vnc variant, a new address in
\* the inheriting variant
generate_new_browser_address(b) ==
  IF b.variant = "vnc" THEN b ELSE [b EXCEPT !.generation = @ + 1]

\* an exception leaves __aenter__ or __aexit__ and reaches the caller
Raise(s, kind, origin) ==
  [s EXCEPT !.l.pc = "idle",
            !.l.in_call = "none", !.l.loop_free = TRUE, !.l.others = 0,
            !.l.raised = [kind |-> kind, origin |-> origin,
                          attempt |-> s.l.launches],
            !.l.last_close = IF @ = "running" THEN "failed" ELSE @,
            !.l.scope = IF @ = "entering" THEN "failed"
                        ELSE IF @ = "exiting" THEN "exited" ELSE @]

\* __aexit__ returns to the caller
Return(s) ==
  [s EXCEPT !.l.pc = "idle",
            !.l.scope = IF @ = "exiting" THEN "exited" ELSE @]

\* variant of StartBody: the vnc variant does not override _start
StartBody_NoOverride(variant) == "create"

\* which _start a call of self._start() runs: vnc_docker_playwright_browser.py
\* line 103 overrides base_playwright_browser.py line 226
StartBody(variant) == IF variant = "vnc" THEN "vnc_driver" ELSE "create"

\* lines 137-145 and 230: __aenter__ calls _start, retries = 0
Aenter(s) ==
  [s EXCEPT !.l.pc = StartBody(s.b.variant), !.l.scope = "entering",
            !.l.exit_kind = "none", !.l.retries = 0, !.l.raised = NoRaise,
            !.l.enters = @ + 1, !.l.launches = 0, !.l.regenerations = 0,
            !.l.dials = 0, !.l.dialled = {}, !.l.scope_closed = FALSE,
            !.l.held = {}, !.l.attempted = {}, !.l.graced = FALSE,
            !.l.got = NotAccessed]

\* line 232: create_container returns a container, or None in the vnc variant
\* (vnc_docker_playwright_browser.py lines 115-120), or raises
CreateContainer(s, result) ==
  IF s.b.variant = "vnc"
  THEN [s EXCEPT !.b._container = None, !.l.pc = "launch"]
  ELSE IF result # "ok"
  THEN Raise(s, result, "create")
  ELSE [s EXCEPT !.w.containers = Append(@, "created"),
                 !.b._container = Len(s.w.containers) + 1,
                 !.l.pc = "launch"]

\* line 234: self._container.start is looked up and handed to
\* asyncio.to_thread; the task is suspended until the worker thread is done,
\* the event loop stays free
BeginLaunch(s) ==
  IF s.b._container = None
  THEN Raise(s, "AttributeError", "launch")
  ELSE [s EXCEPT !.l.pc = "launching", !.l.in_call = "container.start",
                 !.l.loop_free = TRUE, !.l.others = 0]

\* variant of LaunchGivesUp: one attempt fewer
LaunchGivesUp_Early(retries) == retries >= LaunchAttempts - 1

\* line 245
LaunchGivesUp(retries) == retries >= LaunchAttempts

\* variant of Launch: the handler catches every error of the launch
Launch_RetriesAnyError(s, result) ==
  LET t == [s EXCEPT !.l.launches = @ + 1, !.l.in_call = "none",
                     !.l.others = 0]
      retries == s.l.retries + 1
  IN  IF result = "ok"
      THEN [t EXCEPT !.w.containers[s.b._container] = "running",
                     !.l.pc = "grace"]
      ELSE IF LaunchGivesUp(retries)
      THEN Raise([t EXCEPT !.l.retries = retries], result, "launch")
      ELSE [t EXCEPT !.l.retries = retries,
                     !.b = generate_new_browser_address(s.b),
                     !.l.regenerations = @ + 1,
                     !.l.pc = "create"]

\* variant of Launch: the start goes on without the delay of line 238
Launch_SkipsGrace(s, result) ==
  LET t == [s EXCEPT !.l.launches = @ + 1, !.l.in_call = "none",
                     !.l.others = 0]
      retries == s.l.retries + 1
  IN  IF result = "ok"
      THEN [t EXCEPT !.w.containers[s.b._container] = "running",
                     !.l.pc = "driver"]
      ELSE IF result # "DockerException"
      THEN Raise(t, result, "launch")
      ELSE IF LaunchGivesUp(retries)
      THEN Raise([t EXCEPT !.l.retries = retries], result, "launch")
      ELSE [t EXCEPT !.l.retries = retries,
                     !.b = generate_new_browser_address(s.b),
                     !.l.regenerations = @ + 1,
                     !.l.pc = "create"]

\* lines 233-248: the worker thread running self._container.start is done
\* with result, and the handler of DockerException
Launch(s, result) ==
  LET t == [s EXCEPT !.l.launches = @ + 1, !.l.in_call = "none",
                     !.l.others = 0]
      retries == s.l.retries + 1
  IN  IF result = "ok"
      THEN [t EXCEPT !.w.containers[s.b._container] = "running",
                     !.l.pc = "grace"]
      ELSE IF result # "DockerException"
      THEN Raise(t, result, "launch")
      ELSE IF LaunchGivesUp(retries)
      THEN Raise([t EXCEPT !.l.retries = retries], result, "launch")
      ELSE [t EXCEPT !.l.retries = retries,
                     !.b = generate_new_browser_address(s.b),
                     !.l.regenerations = @ + 1,
                     !.l.pc = "create"]

\* line 238: asyncio.sleep(3) inside the try, then break
Grace(s, cancel) ==
  IF cancel THEN Raise(s, "CancelledError", "grace")
  ELSE [s EXCEPT !.l.pc = "driver", !.l.graced = TRUE]

\* lines 252-255: async_playwright().start()
StartDriver(s, result) ==
  IF result # "ok" THEN Raise(s, result, "driver")
  ELSE [s EXCEPT !.w.playwrights = Append(@, "started"),
                 !.b._playwright = Len(s.w.playwrights) + 1,
                 !.l.pc = "connect"]

\* line 257: connect_browser_with_retry has returned a browser
Connected(s, r) ==
  [s EXCEPT !.w.browsers = Append(@, "open"),
            !.b._browser = Len(s.w.browsers) + 1,
            !.l.pc = "context"]

\* line 257: connect_browser_with_retry has raised
ConnectFailed(s, r) ==
  Raise(s, r.outcome.kind, "connect")

\* line 261: self._browser.new_context(), then __aenter__ returns self
NewContext(s, result) ==
  IF result # "ok" THEN Raise(s, result, "context")
  ELSE [s EXCEPT !.w.contexts =
                     Append(@, [on |-> s.b._browser, status |-> "open"]),
                 !.b._context = Len(s.w.contexts) + 1,
                 !.l.pc = "body", !.l.scope = "body",
                 !.l.starts_done = @ + 1]

\* vnc_docker_playwright_browser.py line 108
VncStartDriver(s, result) ==
  IF result # "ok" THEN Raise(s, result, "driver")
  ELSE [s EXCEPT !.w.playwrights = Append(@, "started"),
                 !.b._playwright = Len(s.w.playwrights) + 1,
                 !.l.pc = "vnc_connect"]

\* vnc_docker_playwright_browser.py line 110: one call of chromium.connect
\* with browser_address as it is
VncConnect(s, result) ==
  LET t == [s EXCEPT !.l.dials = @ + 1,
                     !.l.dialled = @ \cup {browser_address(s.b)}]
  IN  IF result # "ok" THEN Raise(t, result, "connect")
      ELSE [t EXCEPT !.w.browsers = Append(@, "open"),
                     !.b._browser = Len(s.w.browsers) + 1,
                     !.l.pc = "vnc_context"]

\* vnc_docker_playwright_browser.py line 113, then __aenter__ returns self
VncNewContext(s, result) ==
  IF result # "ok" THEN Raise(s, result, "context")
  ELSE [s EXCEPT !.w.contexts =
                     Append(@, [on |-> s.b._browser, status |-> "open"]),
                 !.b._context = Len(s.w.contexts) + 1,
                 !.l.pc = "body", !.l.scope = "body",
                 !.l.starts_done = @ + 1]

\* variant of ExitGuard: the flag is not tested
ExitGuard_Always(b) == TRUE

\* line 160: if not self._closed
ExitGuard(b) == ~b._closed

\* what the instance refers to when _close is called
Held(b) ==
  {x \in {"context"} : b._context # None}
    \cup {x \in {"browser"} : b._browser # Unset /\ b._browser # None}
    \cup {x \in {"playwright"} : b._playwright # None}
    \cup {x \in {"container"} : b._container # None}

\* lines 147-159: __aexit__ is called, by the scope (scoped) or directly;
\* kind is how the body ended, which __aexit__ does not look at
Aexit(s, kind, scoped) ==
  [s EXCEPT !.l.pc = "exit", !.l.exit_kind = kind, !.l.raised = NoRaise,
            !.l.exits = @ + 1, !.l.got = NotAccessed,
            !.l.direct_exits = IF scoped THEN @ ELSE @ + 1,
            !.l.scope = IF scoped THEN "exiting" ELSE "direct"]

\* variant of ExitTest: the flag is set before _close is called
ExitTest_FlagFirst(s) ==
  IF ExitGuard(s.b)
  THEN [s EXCEPT !.b._closed = TRUE, !.l.pc = "close_context", !.l.closes = @ + 1,
                 !.l.last_close = "running", !.l.held = Held(s.b),
                 !.l.attempted = {}, !.l.scope_closed = TRUE]
  ELSE Return(s)

\* variant of ExitTest: _close begins with the container
ExitTest_ContainerFirst(s) ==
  IF ExitGuard(s.b)
  THEN [s EXCEPT !.l.pc = "close_container", !.l.closes = @ + 1,
                 !.l.last_close = "running", !.l.held = Held(s.b),
                 !.l.attempted = {}, !.l.scope_closed = TRUE]
  ELSE Return(s)

\* lines 160-162 and 214: the test of the flag, then _close is called
ExitTest(s) ==
  IF ExitGuard(s.b)
  THEN [s EXCEPT !.l.pc = "close_context", !.l.closes = @ + 1,
                 !.l.last_close = "running", !.l.held = Held(s.b),
                 !.l.attempted = {}, !.l.scope_closed = TRUE]
  ELSE Return(s)

\* lines 215-216
CloseContext(s, result) ==
  IF s.b._context = None THEN [s EXCEPT !.l.pc = "close_browser"]
  ELSE LET t == [s EXCEPT !.l.attempted = @ \cup {"context"}]
       IN  IF result # "ok" THEN Raise(t, result, "close_context")
           ELSE [t EXCEPT !.w.contexts[s.b._context].status = "closed",
                          !.l.pc = "close_browser"]

\* lines 218-219
CloseBrowser(s, result) ==
  IF s.b._browser = Unset THEN Raise(s, "AttributeError", "close_browser")
  ELSE IF s.b._browser = None THEN [s EXCEPT !.l.pc = "stop_playwright"]
  ELSE LET t == [s EXCEPT !.l.attempted = @ \cup {"browser"}]
       IN  IF result # "ok" THEN Raise(t, result, "close_browser")
           ELSE [t EXCEPT !.w.browsers[s.b._browser] = "closed",
                          !.l.pc = "stop_playwright"]

\* lines 221-222
StopPlaywright(s, result) ==
  IF s.b._playwright = None THEN [s EXCEPT !.l.pc = "close_container"]
  ELSE LET t == [s EXCEPT !.l.attempted = @ \cup {"playwright"}]
       IN  IF result # "ok" THEN Raise(t, result, "stop_playwright")
           ELSE [t EXCEPT !.w.playwrights[s.b._playwright] = "stopped",
                          !.l.pc = "close_container"]

\* lines 224 and 204-206: _close_container is an ordinary function called
\* from the coroutine, and self._container.stop(timeout=10) runs in it on the
\* thread of the event loop, which is held until the call is over
BeginStop(s) ==
  IF s.b._container = None THEN [s EXCEPT !.l.pc = "mark_closed"]
  ELSE [s EXCEPT !.l.pc = "stopping", !.l.in_call = "container.stop",
                 !.l.loop_free = FALSE, !.l.others = 0,
                 !.l.attempted = @ \cup {"container"}]

\* lines 206-207: self._container.stop is over, then _close returns
CloseContainer(s, result) ==
  LET t == [s EXCEPT !.l.in_call = "none", !.l.loop_free = TRUE,
                     !.l.others = 0]
  IN  IF result # "ok" THEN Raise(t, result, "close_container")
      ELSE [t EXCEPT !.w.containers[s.b._container] = "stopped",
                     !.b._container = None,
                     !.l.pc = "mark_closed"]

\* another task of the same event loop takes a step while this task waits for
\* a container call: possible only when the loop is free
OtherTaskRuns(s) == [s EXCEPT !.l.others = @ + 1]

\* line 163: self._closed = True, then __aexit__ returns
MarkClosed(s) ==
  Return([s EXCEPT !.b._closed = TRUE, !.l.closes_done = @ + 1,
                   !.l.last_close = "done"])

\* variant of browser_context: the test of line 187 is missing
browser_context_Unchecked(b) == [raises |-> "none", value |-> b._context]

\* lines 181-191: the accessor
browser_context(b) ==
  IF b._context = None
  THEN [raises |-> "RuntimeError", value |-> None]
  ELSE [raises |-> "none", value |-> b._context]

\* one read of the accessor, with the number of starts completed before it
Access(s) ==
  LET res == browser_context(s.b)
  IN  [s EXCEPT !.l.got = [raises |-> res.raises, value |-> res.value,
                           starts_done |-> s.l.starts_done]]

(***************************************************************************)
(* The factory get_browser_resource_config (utils.py) and the constructor  *)
(* and vnc_address of VncDockerPlaywrightBrowser.  factory holds one call: *)
(* its arguments (local, headless and the two ports, which the function    *)
(* reassigns), the environment it runs in (the variables the constructor   *)
(* reads, whether the two default ports are free), the object constructed  *)
(* and what is returned.  A decimal text is a sequence of digit characters.*)
(***************************************************************************)
\* vnc_docker_playwright_browser.py line 51; utils.py line 31
DefaultPlaywrightPort == 37367

\* vnc_docker_playwright_browser.py line 52; utils.py line 41
DefaultNovncPort == 6080

\* the value of an unpinned port argument: utils.py lines 30, 40, 57, 58
Unpinned == -1

DigitChars == <<"0", "1", "2", "3", "4", "5", "6", "7", "8", "9">>

\* str(n) for an integer n
RECURSIVE Str(_)
Str(n) ==
  IF n < 0 THEN <<"-">> \o Str(0 - n)
  ELSE IF n < 10 THEN <<DigitChars[n + 1]>>
  ELSE Str(n \div 10) \o <<DigitChars[(n % 10) + 1]>>

DigitValue(ch) == CHOOSE d \in 0..9 : DigitChars[d + 1] = ch

\* int(text) for a text of decimal digits
RECURSIVE IntOfText(_)
IntOfText(text) ==
  IF Len(text) = 0 THEN 0
  ELSE 10 * IntOfText(SubSeq(text, 1, Len(text) - 1)) + DigitValue(text[Len(text)])

\* an environment variable: not set, or set to a text
NotSet == [set |-> FALSE, text |-> <<>>]

SetTo(text) == [set |-> TRUE, text |-> text]

\* int(os.getenv(NAME, default)) with an integer default
EnvInt(var, default) == IF var.set THEN IntOfText(var.text) ELSE default

\* os.getenv(NAME, default) with a text default
EnvText(var, default) == IF var.set THEN var.text ELSE default

\* `port or DEFAULT`: 0 is falsy
OrDefault(port, default) == IF port = 0 THEN default ELSE port

\* utils.py lines 12-19: bind 127.0.0.1:port and read the port back; the bind
\* raises OSError when the port is in use, and the socket made at line 16 is
\* then left unbound and unclosed; else the bound socket is returned open
get_available_port(port, free) ==
  IF free
  THEN [raised |-> "none", port |-> port,
        sock |-> [bound |-> port, status |-> "open"]]
  ELSE [raised |-> "OSError", port |-> port,
        sock |-> [bound |-> 0, status |-> "open"]]

\* sock.close(), utils.py lines 32 and 42
CloseSocket(sock) == [sock EXCEPT !.status = "closed"]

NoObject ==
  [ class |-> "none", _playwright_port |-> 0, _novnc_port |-> 0,
    _novnc_scheme |-> <<>>, _novnc_host |-> <<>>, headless |-> FALSE ]

\* utils.py line 83: LocalPlaywrightBrowser(headless=headless)
LocalBrowser(headless) ==
  [NoObject EXCEPT !.class = "LocalPlaywrightBrowser", !.headless = headless]

\* utils.py lines 35-38: HeadlessDockerPlaywrightBrowser(playwright_port=...)
HeadlessBrowser(playwright_port) ==
  [NoObject EXCEPT !.class = "HeadlessDockerPlaywrightBrowser",
                   !._playwright_port = playwright_port, !.headless = TRUE]

\* vnc_docker_playwright_browser.py lines 56-75: the ports, host and scheme the
\* constructor keeps
VncBrowser(playwright_port, novnc_port, env) ==
  [NoObject EXCEPT
     !.class = "VncDockerPlaywrightBrowser",
     !._playwright_port =
        EnvInt(env.playwright_port,
               OrDefault(playwright_port, DefaultPlaywrightPort)),
     !._novnc_port =
        EnvInt(env.novnc_port, OrDefault(novnc_port, DefaultNovncPort)),
     !._novnc_host = EnvText(env.novnc_host, <<"127.0.0.1">>),
     !._novnc_scheme = EnvText(env.novnc_scheme, <<"http">>)]

\* variant of vnc_address: the port 443 is omitted whatever the scheme
vnc_address_Any443(b) ==
  IF Str(b._novnc_port) = <<"4", "4", "3">>
  THEN b._novnc_scheme \o <<"://">> \o b._novnc_host \o <<"/vnc.html">>
  ELSE b._novnc_scheme \o <<"://">> \o b._novnc_host \o <<":">>
         \o Str(b._novnc_port) \o <<"/vnc.html">>

\* vnc_docker_playwright_browser.py lines 84-93
vnc_address(b) ==
  IF b._novnc_scheme = <<"https">> /\ Str(b._novnc_port) = <<"4", "4", "3">>
  THEN b._novnc_scheme \o <<"://">> \o b._novnc_host \o <<"/vnc.html">>
  ELSE b._novnc_scheme \o <<"://">> \o b._novnc_host \o <<":">>
         \o Str(b._novnc_port) \o <<"/vnc.html">>

NoResult == [class |-> "none", novnc_port |-> 0, playwright_port |-> 0]

\* one call of get_browser_resource_config
FactoryCall(novnc_port, playwright_port, headless, local, env, free) ==
  [ pc |-> "call", novnc_port |-> novnc_port,
    playwright_port |-> playwright_port, headless |-> headless,
    local |-> local, env |-> env, free |-> free,
    asked |-> [novnc_port |-> novnc_port, playwright_port |-> playwright_port],
    allocated |-> {}, sockets |-> <<>>, browser |-> NoObject,
    raised |-> "none",
    result |-> NoResult, vnc_address |-> <<>> ]

\* the value of factory when no call of the factory is followed
NoFactory ==
  [FactoryCall(Unpinned, Unpinned, TRUE, FALSE,
               [playwright_port |-> NotSet, novnc_port |-> NotSet,
                novnc_host |-> NotSet, novnc_scheme |-> NotSet],
               [playwright |-> TRUE, novnc |-> TRUE])
     EXCEPT !.pc = "none"]

\* variant of Dispatch: headless is looked at before local
Dispatch_HeadlessFirst(f) ==
  IF f.local /\ ~f.headless
  THEN [f EXCEPT !.browser = LocalBrowser(f.headless), !.pc = "dump"]
  ELSE [f EXCEPT !.pc = "playwright_port"]

\* utils.py lines 82-92: if local
Dispatch(f) ==
  IF f.local
  THEN [f EXCEPT !.browser = LocalBrowser(f.headless), !.pc = "dump"]
  ELSE [f EXCEPT !.pc = "playwright_port"]

\* utils.py lines 30-32
AllocatePlaywrightPort(f) ==
  IF f.playwright_port # Unpinned THEN [f EXCEPT !.pc = "construct"]
  ELSE LET a == get_available_port(DefaultPlaywrightPort, f.free.playwright)
       IN  IF a.raised # "none"
           THEN [f EXCEPT !.pc = "raised", !.raised = a.raised,
                          !.sockets = Append(@, a.sock)]
           ELSE [f EXCEPT !.pc = "construct", !.playwright_port = a.port,
                          !.sockets = Append(@, CloseSocket(a.sock)),
                          !.allocated = @ \cup {"playwright"}]

\* utils.py lines 34-50
Construct(f) ==
  IF f.headless
  THEN [f EXCEPT !.browser = HeadlessBrowser(f.playwright_port), !.pc = "dump"]
  ELSE LET probed == f.novnc_port = Unpinned
           a == IF probed
                THEN get_available_port(DefaultNovncPort, f.free.novnc)
                ELSE [raised |-> "none", port |-> f.novnc_port]
       IN  IF a.raised # "none"
           THEN [f EXCEPT !.pc = "raised", !.raised = a.raised,
                          !.sockets = Append(@, a.sock)]
           ELSE [f EXCEPT !.pc = "dump", !.novnc_port = a.port,
                          !.sockets = IF probed
                                      THEN Append(@, CloseSocket(a.sock))
                                      ELSE @,
                          !.allocated =
                             IF probed THEN @ \cup {"novnc"} ELSE @,
                          !.browser =
                             VncBrowser(f.playwright_port, a.port, f.env)]

\* utils.py lines 52 and 94: the tuple returned
Dump(f) ==
  [f EXCEPT !.pc = "done",
            !.result = [class |-> f.browser.class, novnc_port |-> f.novnc_port,
                        playwright_port |-> f.playwright_port]]

\* the caller reads vnc_address of the VNC resource
ReadVncAddress(f) ==
  [f EXCEPT !.pc = "read", !.vnc_address = vnc_address(f.browser)]

(***************************************************************************)
(* One activation.                                                         *)
(***************************************************************************)
Calls ==
  {Frame(u, t) : u \in Urls, t \in ShortTimeouts}
    \cup {Frame(LongUrl, t) : t \in LongTimeouts}

Init ==
  /\ run \in Calls
  /\ twin = NoRun
  /\ browser = NoBrowser
  /\ life = NoLife
  /\ world = NoWorld
  /\ factory = NoFactory

Entry ==
  /\ run.pc = "entry"
  /\ run' = Enter(run)
  /\ UNCHANGED <<twin, browser, life, world, factory>>

ProbeInitial ==
  /\ run.pc = "probe"
  /\ \E env \in SockEnvs, dt \in ProbeDurations : run' = InitialProbe(run, env, dt)
  /\ UNCHANGED <<twin, browser, life, world, factory>>

ConnectSucceeds ==
  /\ run.pc = "loop"
  /\ LoopCond(run)
  /\ \E dt \in ConnectDurations : run' = ConnectReturns(run, dt)
  /\ UNCHANGED <<twin, browser, life, world, factory>>

ConnectFails ==
  /\ run.pc = "loop"
  /\ LoopCond(run)
  /\ \E cls \in ConnectErrors, dt \in ConnectDurations, jitter \in Jitters :
        run' = ConnectRaises(run, cls, dt, jitter)
  /\ UNCHANGED <<twin, browser, life, world, factory>>

CancelConnect ==
  /\ run.pc = "loop"
  /\ LoopCond(run)
  /\ \E dt \in ConnectDurations, jitter \in Jitters :
        run' = ConnectRaises(run, "CancelledError", dt, jitter)
  /\ UNCHANGED <<twin, browser, life, world, factory>>

SleepReturns ==
  /\ run.pc = "sleeping"
  /\ run' = Wake(run)
  /\ UNCHANGED <<twin, browser, life, world, factory>>

CancelSleep ==
  /\ run.pc = "sleeping"
  /\ run' = SleepCancelled(run)
  /\ UNCHANGED <<twin, browser, life, world, factory>>

LoopExit ==
  /\ run.pc = "loop"
  /\ ~LoopCond(run)
  /\ run' = LeaveLoop(run)
  /\ UNCHANGED <<twin, browser, life, world, factory>>

ProbeFinal ==
  /\ run.pc = "final_probe"
  /\ \E env \in SockEnvs, dt \in FinalProbeDurations : run' = FinalProbe(run, env, dt)
  /\ UNCHANGED <<twin, browser, life, world, factory>>

Next ==
  \/ Entry
  \/ ProbeInitial
  \/ ConnectSucceeds
  \/ ConnectFails
  \/ CancelConnect
  \/ SleepReturns
  \/ CancelSleep
  \/ LoopExit
  \/ ProbeFinal

Spec == Init /\ [][Next]_vars

\* the event loop resumes the coroutine whenever the probe, the connect
\* attempt or the delay it awaits is over
SpecTerm == Init /\ [][Next]_vars /\ WF_vars(Next)

(***************************************************************************)
(* Two activations with the same arguments, run in lockstep on the same    *)
(* environment (clock, connect primitive, jitter, cancellation) except for *)
(* what the probes find: run sees env, twin sees env2.                     *)
(***************************************************************************)
TwinTimeouts == {0, 3, 5, 8}

TwinCalls == {Frame(LongUrl, t) : t \in TwinTimeouts}

\* what the connect primitive does in one attempt
AttemptKinds == {"returns", "CancelledError"} \cup ConnectErrors

\* lines 72-91: one evaluation of the loop condition and what follows it
LoopStep(r, what, dt, jitter) ==
  IF ~LoopCond(r) THEN LeaveLoop(r)
  ELSE IF what = "returns" THEN ConnectReturns(r, dt)
  ELSE ConnectRaises(r, what, dt, jitter)

\* line 89: the sleep returns or is cancelled
SleepStep(r, cancel) == IF cancel THEN SleepCancelled(r) ELSE Wake(r)

TwinInit ==
  /\ run \in TwinCalls
  /\ twin = run
  /\ browser = NoBrowser
  /\ life = NoLife
  /\ world = NoWorld
  /\ factory = NoFactory

TwinEntry ==
  /\ run.pc = "entry" /\ twin.pc = "entry"
  /\ run' = Enter(run)
  /\ twin' = Enter(twin)
  /\ UNCHANGED <<browser, life, world, factory>>

TwinProbeInitial ==
  /\ run.pc = "probe" /\ twin.pc = "probe"
  /\ \E env \in SockEnvs, env2 \in SockEnvs, dt \in ProbeDurations :
        /\ run' = InitialProbe(run, env, dt)
        /\ twin' = InitialProbe(twin, env2, dt)
  /\ UNCHANGED <<browser, life, world, factory>>

TwinLoop ==
  /\ run.pc = "loop" /\ twin.pc = "loop"
  /\ \E what \in AttemptKinds, dt \in ConnectDurations, jitter \in Jitters :
        /\ run' = LoopStep(run, what, dt, jitter)
        /\ twin' = LoopStep(twin, what, dt, jitter)
  /\ UNCHANGED <<browser, life, world, factory>>

TwinSleep ==
  /\ run.pc = "sleeping" /\ twin.pc = "sleeping"
  /\ \E cancel \in BOOLEAN :
        /\ run' = SleepStep(run, cancel)
        /\ twin' = SleepStep(twin, cancel)
  /\ UNCHANGED <<browser, life, world, factory>>

TwinProbeFinal ==
  /\ run.pc = "final_probe" /\ twin.pc = "final_probe"
  /\ \E env \in SockEnvs, env2 \in SockEnvs, dt \in FinalProbeDurations :
        /\ run' = FinalProbe(run, env, dt)
        /\ twin' = FinalProbe(twin, env2, dt)
  /\ UNCHANGED <<browser, life, world, factory>>

TwinNext ==
  \/ TwinEntry
  \/ TwinProbeInitial
  \/ TwinLoop
  \/ TwinSleep
  \/ TwinProbeFinal

SpecTwin == TwinInit /\ [][TwinNext]_vars

(***************************************************************************)
(* One instance used by one task: scopes (`async with browser:`) and       *)
(* direct calls of __aexit__, one after the other.  The statement          *)
(* `async with` calls __aenter__, runs the body when __aenter__ returned,  *)
(* and calls __aexit__ however the body ended; when __aenter__ raises, the *)
(* body and __aexit__ are not run.                                         *)
(***************************************************************************)
\* what create_container does
CreateResults == {"ok", "DockerException"}

\* what self._container.start does
LaunchResults == {"ok", "DockerException", "OSError"}

\* what a call into playwright or a container stop does
StepResults == {"ok", "Error"}

\* how the body of a scope ends
BodyEnds == {"normal", "error", "cancel"}

\* what the socket layer does in the probes of a start
LifeSockEnvs ==
  { [stage |-> "none", exc |-> "none", result |-> 0],
    [stage |-> "none", exc |-> "none", result |-> 111] }

\* what the connect primitive does in one attempt of a start
LifeAttemptKinds == {"returns", "ConnectionError", "CancelledError"}

\* the jitter of the delays of a start
LifeJitters == {1}

Now == [b |-> browser, l |-> life, w |-> world]

Becomes(s) ==
  /\ browser' = s.b
  /\ life' = s.l
  /\ world' = s.w

LifeInit ==
  /\ run = NoRun
  /\ twin = NoRun
  /\ browser \in {NewBrowser("docker", "localhost")}
                   \cup {NewBrowser("vnc", h) : h \in VncHosts}
  /\ life = NewLife
  /\ world = NewWorld
  /\ factory = NoFactory

EnterScope ==
  /\ life.pc = "idle"
  /\ life.enters < MaxEnters
  /\ Becomes(Aenter(Now))
  /\ UNCHANGED <<run, twin, factory>>

Create ==
  /\ life.pc = "create"
  /\ \E result \in CreateResults : Becomes(CreateContainer(Now, result))
  /\ UNCHANGED <<run, twin, factory>>

SubmitLaunch ==
  /\ life.pc = "launch"
  /\ Becomes(BeginLaunch(Now))
  /\ UNCHANGED <<run, twin, factory>>

LaunchContainer ==
  /\ life.pc = "launching"
  /\ \E result \in LaunchResults : Becomes(Launch(Now, result))
  /\ UNCHANGED <<run, twin, factory>>

OtherTask ==
  /\ life.in_call # "none"
  /\ life.loop_free
  /\ life.others < MaxOtherSteps
  /\ Becomes(OtherTaskRuns(Now))
  /\ UNCHANGED <<run, twin, factory>>

GraceDelay ==
  /\ life.pc = "grace"
  /\ \E cancel \in BOOLEAN : Becomes(Grace(Now, cancel))
  /\ UNCHANGED <<run, twin, factory>>

Driver ==
  /\ life.pc = "driver"
  /\ \E result \in StepResults :
        /\ Becomes(StartDriver(Now, result))
        /\ run' = IF result = "ok"
                  THEN Frame(browser_address(browser), StartTimeout)
                  ELSE run
  /\ UNCHANGED <<twin, factory>>

LifeEntry ==
  /\ life.pc = "connect" /\ run.pc = "entry"
  /\ run' = Enter(run)
  /\ UNCHANGED <<twin, browser, life, world, factory>>

LifeProbeInitial ==
  /\ life.pc = "connect" /\ run.pc = "probe"
  /\ \E env \in LifeSockEnvs : run' = InitialProbe(run, env, 0)
  /\ UNCHANGED <<twin, browser, life, world, factory>>

LifeLoop ==
  /\ life.pc = "connect" /\ run.pc = "loop"
  /\ \E what \in LifeAttemptKinds, jitter \in LifeJitters :
        run' = LoopStep(run, what, 0, jitter)
  /\ UNCHANGED <<twin, browser, life, world, factory>>

LifeSleep ==
  /\ life.pc = "connect" /\ run.pc = "sleeping"
  /\ \E cancel \in BOOLEAN : run' = SleepStep(run, cancel)
  /\ UNCHANGED <<twin, browser, life, world, factory>>

LifeProbeFinal ==
  /\ life.pc = "connect" /\ run.pc = "final_probe"
  /\ \E env \in LifeSockEnvs : run' = FinalProbe(run, env, 0)
  /\ UNCHANGED <<twin, browser, life, world, factory>>

ConnectReturn ==
  /\ life.pc = "connect" /\ run.pc = "returned"
  /\ Becomes(Connected(Now, run))
  /\ run' = NoRun
  /\ UNCHANGED <<twin, factory>>

ConnectRaise ==
  /\ life.pc = "connect" /\ run.pc = "raised"
  /\ Becomes(ConnectFailed(Now, run))
  /\ run' = NoRun
  /\ UNCHANGED <<twin, factory>>

Context ==
  /\ life.pc = "context"
  /\ \E result \in StepResults : Becomes(NewContext(Now, result))
  /\ UNCHANGED <<run, twin, factory>>

VncDriver ==
  /\ life.pc = "vnc_driver"
  /\ \E result \in StepResults : Becomes(VncStartDriver(Now, result))
  /\ UNCHANGED <<run, twin, factory>>

VncDial ==
  /\ life.pc = "vnc_connect"
  /\ \E result \in {"ok", "ConnectionError"} : Becomes(VncConnect(Now, result))
  /\ UNCHANGED <<run, twin, factory>>

VncContext ==
  /\ life.pc = "vnc_context"
  /\ \E result \in StepResults : Becomes(VncNewContext(Now, result))
  /\ UNCHANGED <<run, twin, factory>>

ReadContext ==
  /\ life.pc \in {"idle", "body"}
  /\ life.got = NotAccessed
  /\ Becomes(Access(Now))
  /\ UNCHANGED <<run, twin, factory>>

LeaveScope ==
  /\ life.pc = "body"
  /\ \E kind \in BodyEnds : Becomes(Aexit(Now, kind, TRUE))
  /\ UNCHANGED <<run, twin, factory>>

CallExit ==
  /\ life.pc = "idle"
  /\ life.direct_exits < MaxDirectExits
  /\ Becomes(Aexit(Now, "none", FALSE))
  /\ UNCHANGED <<run, twin, factory>>

TestClosed ==
  /\ life.pc = "exit"
  /\ Becomes(ExitTest(Now))
  /\ UNCHANGED <<run, twin, factory>>

ReleaseContext ==
  /\ life.pc = "close_context"
  /\ \E result \in StepResults : Becomes(CloseContext(Now, result))
  /\ UNCHANGED <<run, twin, factory>>

ReleaseBrowser ==
  /\ life.pc = "close_browser"
  /\ \E result \in StepResults : Becomes(CloseBrowser(Now, result))
  /\ UNCHANGED <<run, twin, factory>>

ReleasePlaywright ==
  /\ life.pc = "stop_playwright"
  /\ \E result \in StepResults : Becomes(StopPlaywright(Now, result))
  /\ UNCHANGED <<run, twin, factory>>

CallStop ==
  /\ life.pc = "close_container"
  /\ Becomes(BeginStop(Now))
  /\ UNCHANGED <<run, twin, factory>>

ReleaseContainer ==
  /\ life.pc = "stopping"
  /\ \E result \in StepResults : Becomes(CloseContainer(Now, result))
  /\ UNCHANGED <<run, twin, factory>>

SetClosed ==
  /\ life.pc = "mark_closed"
  /\ Becomes(MarkClosed(Now))
  /\ UNCHANGED <<run, twin, factory>>

LifeNext ==
  \/ EnterScope
  \/ Create
  \/ SubmitLaunch
  \/ LaunchContainer
  \/ OtherTask
  \/ GraceDelay
  \/ Driver
  \/ LifeEntry
  \/ LifeProbeInitial
  \/ LifeLoop
  \/ LifeSleep
  \/ LifeProbeFinal
  \/ ConnectReturn
  \/ ConnectRaise
  \/ Context
  \/ VncDriver
  \/ VncDial
  \/ VncContext
  \/ ReadContext
  \/ LeaveScope
  \/ CallExit
  \/ TestClosed
  \/ ReleaseContext
  \/ ReleaseBrowser
  \/ ReleasePlaywright
  \/ CallStop
  \/ ReleaseContainer
  \/ SetClosed

SpecLife == LifeInit /\ [][LifeNext]_vars

(***************************************************************************)
(* One call of get_browser_resource_config, followed by the caller reading *)
(* vnc_address of a VNC resource.  The arguments and the environment are   *)
(* drawn by the initial state.                                             *)
(***************************************************************************)
NovncPortArgs == {Unpinned, 0, 443, 8080}

PlaywrightPortArgs == {Unpinned, 0, 9000}

PlaywrightPortEnvs == {NotSet, SetTo(<<"9", "0", "0", "1">>)}

NovncPortEnvs == {NotSet, SetTo(<<"4", "4", "3">>), SetTo(<<"0", "4", "4", "3">>)}

NovncHostEnvs == {NotSet, SetTo(<<"vnc.example.com">>)}

NovncSchemeEnvs == {NotSet, SetTo(<<"https">>)}

FactoryEnvs ==
  [ playwright_port : PlaywrightPortEnvs, novnc_port : NovncPortEnvs,
    novnc_host : NovncHostEnvs, novnc_scheme : NovncSchemeEnvs ]

FreePorts == [playwright : BOOLEAN, novnc : BOOLEAN]

FactoryInit ==
  /\ run = NoRun
  /\ twin = NoRun
  /\ browser = NoBrowser
  /\ life = NoLife
  /\ world = NoWorld
  /\ factory \in
       { FactoryCall(n, p, h, l, env, free) :
           n \in NovncPortArgs, p \in PlaywrightPortArgs, h \in BOOLEAN,
           l \in BOOLEAN, env \in FactoryEnvs, free \in FreePorts }

FactoryDispatch ==
  /\ factory.pc = "call"
  /\ factory' = Dispatch(factory)
  /\ UNCHANGED <<run, twin, browser, life, world>>

FactoryPlaywrightPort ==
  /\ factory.pc = "playwright_port"
  /\ factory' = AllocatePlaywrightPort(factory)
  /\ UNCHANGED <<run, twin, browser, life, world>>

FactoryConstruct ==
  /\ factory.pc = "construct"
  /\ factory' = Construct(factory)
  /\ UNCHANGED <<run, twin, browser, life, world>>

FactoryReturn ==
  /\ factory.pc = "dump"
  /\ factory' = Dump(factory)
  /\ UNCHANGED <<run, twin, browser, life, world>>

FactoryVncAddress ==
  /\ factory.pc = "done"
  /\ factory.browser.class = "VncDockerPlaywrightBrowser"
  /\ factory' = ReadVncAddress(factory)
  /\ UNCHANGED <<run, twin, browser, life, world>>

FactoryNext ==
  \/ FactoryDispatch
  \/ FactoryPlaywrightPort
  \/ FactoryConstruct
  \/ FactoryReturn
  \/ FactoryVncAddress

SpecFactory == FactoryInit /\ [][FactoryNext]_vars

(***************************************************************************)
(* Properties of connect_browser_with_retry and check_connectivity.        *)
(***************************************************************************)
Elapsed(r) == r.now - r.start_time

\* the TimeoutError of lines 97-101 has left the function
TimedOut(r) == r.pc = "raised" /\ r.outcome.origin = "terminal"

\* C1: whatever the timeout and whatever the connect primitive does, the number
\* of invocations of the connect primitive never exceeds min(timeout // 2, 15)
\* (a bound below zero allows none), hence never 15.
C1_AttemptsWithinMaxAttempts ==
  LET half == run.timeout \div 2
      maxAttempts == IF half < 15 THEN half ELSE 15
  IN  /\ run.connects <= (IF maxAttempts < 0 THEN 0 ELSE maxAttempts)
      /\ run.connects <= 15

\* C1 witness: the cap binds: timeout // 2 is 16 and the 15th attempt was made
C1_Witness ==
  /\ run.timeout \div 2 > 15
  /\ run.connects = 15
  /\ TimedOut(run)

\* C2 as claimed: with timeout = 30 and every attempt failing, the connect
\* primitive has been invoked exactly 15 times when the timeout error is raised.
C2_Original ==
  (TimedOut(run) /\ run.timeout = 30) => run.connects = 15

\* C2 amended: with timeout = 30 and every attempt failing, the loop is left
\* after at most 15 invocations, after exactly 15 unless the 30 s measured from
\* start_time have elapsed before, and the function then fails with the
\* timeout error, which reports the number of attempts made.
C2_FifteenUnlessBudgetSpent ==
  (run.timeout = 30 /\ (run.pc = "final_probe" \/ TimedOut(run))) =>
    /\ run.connects <= 15
    /\ run.connects = 15 \/ Elapsed(run) >= 300
    /\ TimedOut(run) =>
          /\ run.outcome.kind = "TimeoutError"
          /\ run.error_msg.attempts = run.connects

\* C2 witness: timeout 30, fifteen failed attempts, then the timeout error
C2_Witness ==
  /\ run.timeout = 30
  /\ TimedOut(run)
  /\ run.outcome.kind = "TimeoutError"
  /\ run.connects = 15
  /\ Elapsed(run) < 300

\* C3 as claimed: for every timeout <= 0 the timeout error is raised without any
\* invocation of the connect primitive and reports zero attempts and zero
\* elapsed time.
C3_Original ==
  (run.timeout <= 0 /\ TimedOut(run)) =>
    /\ run.connects = 0
    /\ run.error_msg.attempts = 0
    /\ run.error_msg.over = 0

\* C3 amended: for every timeout <= 0 and every address whose port parses, the
\* loop is never entered (no connect, no delay, no retry counted), the function
\* ends only with the timeout error, after the initial and the final probe, and
\* the error reports zero attempts and the timeout argument itself as the
\* budget: 0 for timeout = 0, the negative number for a negative timeout.
C3_NonPositiveTimeout ==
  run.timeout <= 0 =>
    /\ run.connects = 0 /\ run.dialled = {}
    /\ run.sleeps = 0 /\ run.skipped = 0 /\ run.retry_count = 0
    /\ run.pc \notin {"sleeping", "returned"}
    /\ (run.pc = "raised" /\ PortParses(run.url)) =>
          /\ run.outcome = [kind |-> "TimeoutError", origin |-> "terminal"]
          /\ run.probes = 2
          /\ run.error_msg.attempts = 0
          /\ run.error_msg.over = run.timeout

\* C3 witness: a negative timeout ended with the timeout error "over -1s"
C3_Witness ==
  /\ run.timeout < 0
  /\ TimedOut(run)
  /\ run.outcome.kind = "TimeoutError"
  /\ run.error_msg.over = run.timeout
  /\ run.connects = 0

\* C4 as claimed: with timeout 30, a connection returned after k failures took
\* exactly k + 1 invocations and exactly k awaited delays.
C4_Original ==
  (run.pc = "returned" /\ run.timeout = 30) =>
    /\ run.connects = run.retry_count + 1
    /\ run.sleeps = run.retry_count

\* C4 amended: a connection returned after k failures took exactly k + 1
\* invocations; after each failure the delay was either awaited or skipped, so
\* at most k delays were awaited, exactly k when none was skipped; a delay is
\* skipped only within 3.5 s of the deadline; no delay follows the success.
C4_ReturnsAfterKFailures ==
  /\ run.pc = "returned" =>
        /\ run.outcome.kind = "Browser"
        /\ run.connects = run.retry_count + 1
        /\ run.sleeps + run.skipped = run.retry_count
        /\ run.delay = 0
  /\ run.skipped > 0 => Elapsed(run) > 10 * run.timeout - 35

\* C4 witness: three failures, three awaited delays, success on the 4th attempt
C4_Witness ==
  /\ run.pc = "returned"
  /\ run.timeout = 30
  /\ run.retry_count = 3
  /\ run.connects = 4
  /\ run.sleeps = 3

\* C5 as claimed: the only outcomes that leave the function are a live
\* connection and the terminal timeout error.
C5_Original ==
  run.pc = "raised" => run.outcome = [kind |-> "TimeoutError", origin |-> "terminal"]

\* C5 amended: the error of a single connect attempt never leaves the function:
\* every attempt that failed was counted and followed by the loop; what leaves
\* the function is a live connection, the terminal timeout error, the
\* ValueError of an address whose port does not parse (before any attempt), or
\* the cancellation of the task at the connect or at the delay.
C5_AttemptErrorsAbsorbed ==
  /\ run.outcome.origin = "connect" => run.outcome.kind \in {"Browser", "CancelledError"}
  /\ run.pc = "raised" =>
        run.outcome \in { [kind |-> "TimeoutError", origin |-> "terminal"],
                          [kind |-> "ValueError", origin |-> "urlparse"],
                          [kind |-> "CancelledError", origin |-> "connect"],
                          [kind |-> "CancelledError", origin |-> "sleep"] }
  /\ run.outcome.kind = "ValueError" => run.connects = 0
  /\ (run.pc \in {"loop", "sleeping", "final_probe"} \/ TimedOut(run)) =>
        run.retry_count = run.connects

\* C5 witness: two attempts failed, were absorbed, and the third returned
C5_Witness ==
  /\ run.pc = "returned"
  /\ run.retry_count = 2
  /\ run.connects = 3

\* the address does not start with the sibling-container prefix ws://magentic-ui-
NotSibling(url) == ~(Len(url) >= 2 /\ url[1] = "ws://" /\ url[2] = "magentic-ui-")

\* the text localhost occurs in the address
HasLocalhost(url) == \E i \in DOMAIN url : url[i] = "localhost"

C7_SiblingAddressUnmodified ==
  ~NotSibling(run.original_url) =>
    /\ \A d \in run.dialled : d = run.original_url
    /\ run.pc # "entry" => (run.url = run.original_url /\ ~run.forced)
    /\ run.connects > 0 => run.dialled = {run.original_url}

\* C7 witness: a sibling address containing localhost was dialled unmodified
\* in a first attempt and in a retry
C7_Witness ==
  /\ run.original_url =
        <<"ws://", "magentic-ui-", "localhost", ":", "37367", "/", "localhost">>
  /\ run.connects >= 2
  /\ run.dialled = {run.original_url}

\* what a caller and the connect primitive observe of an activation: its place,
\* the clock, the attempts and the addresses dialled, the delays, the outcome
Observable(r) ==
  [ pc |-> r.pc, now |-> r.now, url |-> r.url, retry_count |-> r.retry_count,
    connects |-> r.connects, dialled |-> r.dialled, delay |-> r.delay,
    sleeps |-> r.sleeps, skipped |-> r.skipped, outcome |-> r.outcome,
    attempts |-> r.error_msg.attempts, over |-> r.error_msg.over ]

C9_ProbeNeverRaises ==
  LET p == run.last_probe
  IN  /\ run.outcome.origin # "probe"
      /\ run.probes > 0 =>
            /\ p.raised = "none"
            /\ p.reachable <=> (p.env.stage = "none" /\ p.env.result = 0)
            /\ (p.env.stage = "none" /\ p.env.result = 0) =>
                  p.message.kind = "successful"
            /\ (p.env.stage = "none" /\ p.env.result # 0) =>
                  /\ p.message.kind = "failed with error code"
                  /\ p.message.code = p.env.result
            /\ p.env.stage # "none" =>
                  /\ p.message.kind = "test failed"
                  /\ p.message.detail = p.env.exc
      /\ run.pc = "loop" /\ run.probes = 1 => run.can_connect = p.reachable

\* C9 witness: the probe hit an exception that is no OSError (the host name
\* could not be encoded) and reported unreachable
C9_Witness ==
  /\ run.probes = 1
  /\ run.pc = "loop"
  /\ run.last_probe.env.exc = "UnicodeError"
  /\ ~run.can_connect

\* C10: when the loop is left without success exactly one final probe runs and
\* the timeout error carries the attempt count and the timeout budget; its text
\* has the note on network connectivity to host:port exactly when that final
\* probe failed, whatever the initial probe reported.
C10_FinalDiagnostic ==
  /\ run.pc = "final_probe" => run.probes = 1
  /\ TimedOut(run) =>
        /\ run.probes = 2
        /\ run.outcome.kind = "TimeoutError"
        /\ run.error_msg.attempts = run.retry_count
        /\ run.error_msg.attempts = run.connects
        /\ run.error_msg.over = run.timeout
        /\ run.error_msg.note <=>
              ~(run.last_probe.env.stage = "none" /\ run.last_probe.env.result = 0)
        /\ run.error_msg.host = Hostname(run.url) \/ Hostname(run.url) = <<>>
        /\ PortText(run.url) # <<>> => run.error_msg.port = PortValue[PortText(run.url)[1]]

\* C10 witness: the initial probe succeeded, the final probe failed, and the
\* error has the note
C10_Witness ==
  /\ TimedOut(run)
  /\ run.can_connect
  /\ run.retry_count > 0
  /\ ~run.final_connectivity
  /\ run.error_msg.note

(***************************************************************************)
(* Properties of the retry delays, of the address check and of the budget  *)
(* of connect_browser_with_retry (Spec).                                   *)
(***************************************************************************)
\* C24: after the failed attempt number n >= 1 the delay is min(2^(n-1), 3)
\* seconds plus a jitter of 0.1 to 0.4 seconds (below 0.5): 1, 2, 3, 3, ...
\* seconds plus the jitter, which gives 1.2, 2.2, 3.2, 3.2 with a jitter of
\* 0.2, and no delay exceeds 3.5 seconds.
C24_BackoffDelays ==
  run.pc = "sleeping" =>
    LET n    == run.retry_count
        base == IF n = 1 THEN 10 ELSE IF n = 2 THEN 20 ELSE 30
    IN  /\ n >= 1
        /\ run.delay - base \in 1..4
        /\ run.delay < 35
        /\ run.delay - base = 2 =>
             run.delay = (IF n = 1 THEN 12 ELSE IF n = 2 THEN 22 ELSE 32)

\* the fourth failed attempt is followed by a delay of 3.2 s when the first
\* three were followed by 1.2, 2.2 and 3.2 s
C24_Witness ==
  /\ run.pc = "sleeping"
  /\ run.retry_count = 4
  /\ run.delay = 32
  /\ run.now - run.start_time = 12 + 22 + 32

\* C25: after a failed attempt the delay is awaited only if elapsed + delay <
\* timeout; otherwise nothing is awaited and the loop is back at its condition
\* at the time the attempt failed: no step taken there lets time pass except a
\* connect attempt itself.
C25_Step ==
  /\ (run.pc = "loop" /\ run'.retry_count = run.retry_count + 1) =>
       LET elapsed == run'.now - run'.start_time
           n       == run'.retry_count
           base    == IF n = 1 THEN 10 ELSE IF n = 2 THEN 20 ELSE 30
       IN  /\ run'.pc \in {"sleeping", "loop"}
           /\ run'.pc = "sleeping" =>
                /\ elapsed + run'.delay < 10 * run.timeout
                /\ run'.sleeps = run.sleeps + 1
                /\ run'.skipped = run.skipped
           /\ run'.pc = "loop" =>
                /\ elapsed + base + 4 >= 10 * run.timeout
                /\ run'.sleeps = run.sleeps
                /\ run'.skipped = run.skipped + 1
  /\ (run.pc = "sleeping" /\ run'.pc = "loop") =>
       run'.now = run.now + run.delay
  /\ (run.pc = "loop" /\ run'.connects = run.connects) => run'.now = run.now

C25_DelayOnlyWithinBudget == [][C25_Step]_vars

\* a delay was skipped with budget and attempts left: the next attempt is due
C25_Witness ==
  /\ run.pc = "loop"
  /\ run.skipped = 1
  /\ run.sleeps >= 1
  /\ run.now - run.start_time < 10 * run.timeout
  /\ run.retry_count < run.max_retries

C30_Original ==
  (run.pc = "final_probe" /\ run.retry_count < run.max_retries) =>
    run.now - run.probe_end >= 10 * run.timeout

\* C30 amended: the budget runs from start_time, which is the clock at the
\* entry of the function (0 here), before the initial probe: the loop is left
\* for lack of time when timeout seconds have passed since the entry, and a
\* call that makes no attempt although the attempt bound is positive is one
\* whose initial probe took the whole budget.
C30_BudgetFromEntry ==
  /\ run.pc \in {"probe", "loop", "sleeping", "final_probe", "returned"} =>
       run.start_time = 0
  /\ run.pc \in {"loop", "sleeping", "final_probe", "returned"} =>
       run.probe_end - run.start_time \in {0, 30}
  /\ (run.pc = "final_probe" /\ run.retry_count < run.max_retries) =>
       run.now - run.start_time >= 10 * run.timeout
  /\ (run.pc = "final_probe" /\ run.connects = 0 /\ run.max_retries > 0) =>
       run.probe_end - run.start_time >= 10 * run.timeout

\* timeout 3: the initial probe took 3 s and no connect attempt was made
C30_Witness ==
  /\ run.pc = "final_probe"
  /\ run.timeout = 3
  /\ run.probe_end = 30
  /\ run.connects = 0

\* C33 as claimed: for every timeout > 0 the connect primitive is invoked at
\* least once before the timeout error; zero attempts only for timeout <= 0.
C33_Original ==
  (TimedOut(run) /\ run.timeout > 0) => run.connects >= 1

\* C33 amended: the timeout error follows zero connect attempts exactly when
\* timeout < 2 (the attempt bound timeout // 2 is then 0 or negative) or the
\* initial probe has used up the whole budget; in every other call at least
\* one attempt is made before the error, which reports the attempts made.
C33_ZeroAttempts ==
  (run.pc = "final_probe" \/ TimedOut(run)) =>
    /\ run.connects = 0 <=>
         (run.timeout < 2 \/ run.probe_end - run.start_time >= 10 * run.timeout)
    /\ TimedOut(run) => run.error_msg.attempts = run.connects

\* timeout 1: the timeout error after no attempt at all, the probe took no time
C33_Witness ==
  /\ TimedOut(run)
  /\ run.timeout = 1
  /\ run.probe_end = 0
  /\ run.connects = 0
  /\ run.error_msg.attempts = 0

\* C34: no connect attempt starts once the budget is spent: every invocation
\* of the connect primitive begins at the loop head with elapsed < timeout and
\* with fewer than min(timeout // 2, 15) failed attempts, and every awaited
\* delay ends before the deadline.
C34_Step ==
  /\ run'.connects = run.connects + 1 =>
       /\ run.pc = "loop"
       /\ run.now - run.start_time < 10 * run.timeout
       /\ run.connects = run.retry_count
       /\ run.retry_count < (IF run.timeout \div 2 < 15
                               THEN run.timeout \div 2 ELSE 15)
  /\ (run.pc = "sleeping" /\ run'.pc = "loop") =>
       /\ run'.now = run.now + run.delay
       /\ run'.now - run'.start_time < 10 * run.timeout

C34_NoAttemptAfterBudget == [][C34_Step]_vars

\* a fourth attempt is due after three failed attempts and three awaited delays
C34_Witness ==
  /\ run.pc = "loop"
  /\ run.connects = 3
  /\ run.sleeps = 3
  /\ run.now - run.start_time < 10 * run.timeout
  /\ run.retry_count < run.max_retries

\* the function has ended, by return or by an exception
Done(r) == r.pc \in {"returned", "raised"}

\* a bound on the steps the function has left: two per attempt it may still
\* make, whatever the clock shows
Rank(r) ==
  CASE r.pc = "entry" -> 35
    [] r.pc = "probe" -> 34
    [] r.pc = "sleeping" -> 33 - 2 * r.retry_count
    [] r.pc = "loop" -> 32 - 2 * r.retry_count
    [] r.pc = "final_probe" -> 1
    [] OTHER -> 0

\* C35 as claimed: the function ends with a live connection or with the
\* timeout error.
C35_Original ==
  Done(run) => (run.outcome.kind = "Browser" \/ TimedOut(run))

\* C35 amended: provided every probe and every connect attempt terminates,
\* the function terminates: every step brings it nearer to its end by a
\* measure that does not depend on the clock, the loop is left after at most
\* min(timeout // 2, 15) failed attempts, and it ends with a live connection,
\* with the timeout error, with the ValueError of an address whose port does
\* not parse, or with the CancelledError of a cancelled attempt or delay.
C35_Step ==
  /\ Rank(run') < Rank(run)
  /\ Rank(run') >= 0
  /\ run'.retry_count <= 15
  /\ run'.retry_count > 0 => run'.retry_count <= run.timeout \div 2
  /\ Done(run') =>
       \/ run'.pc = "returned" /\ run'.outcome.kind = "Browser"
       \/ TimedOut(run')
       \/ run'.outcome = [kind |-> "ValueError", origin |-> "urlparse"]
       \/ run'.outcome.kind = "CancelledError"

C35_Terminates == [][C35_Step]_vars /\ <>Done(run)

\* the timeout error after fifteen failed attempts, with budget left
C35_Witness ==
  /\ TimedOut(run)
  /\ run.retry_count = 15
  /\ run.timeout = 32
  /\ run.now - run.start_time < 10 * run.timeout

C12_EveryReleaseAttempted ==
  life.last_close \in {"done", "failed"} => life.attempted = life.held

\* C13 as claimed: when a scope whose __aenter__ returned (start performed)
\* has been left, on whichever path, _close has been performed on that exit.
C13_ClosedOnEveryExit ==
  life.scope = "exited" => life.scope_closed

\* C14: as long as no start has completed on the instance (Uninitialized,
\* Starting, or a start that failed) the accessor browser_context raises the
\* not-initialized RuntimeError, for the caller that reads it and in every
\* intermediate state of _start; and whenever the accessor returns a context,
\* that context was created on a browser connection that had been established.
C14_ContextOnlyWhenRunning ==
  /\ life.starts_done = 0 =>
        /\ browser_context(browser).raises = "RuntimeError"
        /\ browser_context(browser).value = None
  /\ (life.got # NotAccessed /\ life.got.starts_done = 0) =>
        /\ life.got.raises = "RuntimeError"
        /\ life.got.value = None
  /\ browser_context(browser).raises = "none" =>
        LET c == browser_context(browser).value
        IN  /\ c \in 1..Len(world.contexts)
            /\ world.contexts[c].on \in 1..Len(world.browsers)
            /\ browser._browser \in 1..Len(world.browsers)

\* C14 witness: a start failed in the connect phase, the caller then read the
\* accessor and got the RuntimeError
C14_Witness ==
  /\ life.pc = "idle"
  /\ life.starts_done = 0
  /\ life.raised.origin = "connect"
  /\ life.got # NotAccessed
  /\ life.got.raises = "RuntimeError"

\* C15: in one start the container launch is attempted at most 3 times; a start
\* that fails on the launch with DockerException has made exactly 3 attempts and
\* raises the error of the third; the address is regenerated after each failed
\* launch that is followed by a retry (twice at most, not after the third); a
\* third launch that succeeds leaves the loop with a running container.
C15_LaunchBudget ==
  /\ life.launches <= 3
  /\ life.regenerations <= 2
  /\ (life.raised.origin = "launch" /\ life.raised.kind = "DockerException") =>
        /\ life.launches = 3
        /\ life.raised.attempt = 3
        /\ life.regenerations = 2
  /\ life.pc \in {"create", "launch"} =>
        /\ life.regenerations = life.launches
        /\ life.retries = life.launches
  /\ life.pc = "grace" =>
        /\ life.regenerations = life.launches - 1
        /\ world.containers[browser._container] = "running"

\* C15 witness: the launch failed twice, succeeded the third time, and the
\* start went on to a running resource
C15_Witness ==
  /\ life.pc = "body"
  /\ life.enters = 1
  /\ life.launches = 3
  /\ life.regenerations = 2
  /\ browser.generation = 2

\* C16 as claimed: after a start that failed fatally on the launch (three
\* failed attempts) the instance holds no container.
C16_NoContainerAfterFatalLaunch ==
  (life.pc = "idle" /\ life.raised.origin = "launch"
     /\ life.raised.kind = "DockerException" /\ life.launches = 3) =>
    browser._container = None

\* the positions inside DockerPlaywrightBrowser._start
TemplatePcs == {"create", "launch", "grace", "driver", "connect", "context"}

\* the positions inside VncDockerPlaywrightBrowser._start
VncPcs == {"vnc_driver", "vnc_connect", "vnc_context"}

C18_SecondStartRejected ==
  ~(life.starts_done >= 1 /\ life.pc \in TemplatePcs \cup VncPcs)

\* the instance refers to a container that is not stopped, to an open browser
\* connection or to an open browsing context
HoldsLive ==
  \/ /\ browser._container \in 1..Len(world.containers)
     /\ world.containers[browser._container] # "stopped"
  \/ /\ browser._browser \in 1..Len(world.browsers)
     /\ world.browsers[browser._browser] = "open"
  \/ /\ browser._context \in 1..Len(world.contexts)
     /\ world.contexts[browser._context].status = "open"

\* C19 as claimed: an instance that has reached Closed (the flag _closed is
\* set) never again holds a live container, browser connection or context.
C19_ClosedIsTerminal ==
  browser._closed => ~HoldsLive

\* C20: once the task has been cancelled inside connect_browser_with_retry, in
\* a connect attempt or in the delay, the function has ended with
\* CancelledError: no connect attempt was made after the cancellation, the
\* final probe was not run and no timeout error or message was produced.
C20_CancellationPropagates ==
  run.cancelled =>
    /\ run.pc = "raised"
    /\ run.outcome.kind = "CancelledError"
    /\ run.outcome.origin \in {"connect", "sleep"}
    /\ run.probes = 1
    /\ run.error_msg = [attempts |-> 0, over |-> 0, note |-> FALSE,
                        host |-> <<>>, port |-> 0]
    /\ run.outcome.origin = "connect" =>
          /\ run.connects = run.retry_count + 1
          /\ run.sleeps + run.skipped = run.retry_count
    /\ run.outcome.origin = "sleep" =>
          /\ run.connects = run.retry_count
          /\ run.sleeps + run.skipped = run.retry_count

\* C20 witness: two attempts failed, the task was cancelled in the delay that
\* followed the second
C20_Witness ==
  /\ run.cancelled
  /\ run.outcome = [kind |-> "CancelledError", origin |-> "sleep"]
  /\ run.connects = 2
  /\ run.sleeps = 2

\* the object an attribute of the instance refers to is closed (or there is none)
ContextClosed ==
  browser._context # None => world.contexts[browser._context].status = "closed"

ConnectionClosed ==
  browser._browser \notin {Unset, None} => world.browsers[browser._browser] = "closed"

DriverStopped ==
  browser._playwright # None => world.playwrights[browser._playwright] = "stopped"

\* C28: in every run of _close the browsing context is closed before the
\* control connection, the connection before the automation driver is stopped,
\* and the container is stopped last: the container is touched only when the
\* context and the connection the instance holds are closed.
C28_TeardownOrder ==
  /\ life.pc = "close_context" => life.attempted = {}
  /\ life.pc = "close_browser" =>
       /\ ContextClosed
       /\ life.attempted \subseteq {"context"}
  /\ life.pc = "stop_playwright" =>
       /\ ContextClosed /\ ConnectionClosed
       /\ life.attempted \subseteq {"context", "browser"}
  /\ life.pc = "close_container" =>
       /\ ContextClosed /\ ConnectionClosed /\ DriverStopped
       /\ "container" \notin life.attempted
  /\ life.pc = "mark_closed" =>
       /\ ContextClosed /\ ConnectionClosed /\ DriverStopped
       /\ browser._container = None
  /\ "container" \in life.attempted =>
       /\ ContextClosed /\ ConnectionClosed /\ DriverStopped
       /\ life.held \ {"container"} \subseteq life.attempted
  /\ "playwright" \in life.attempted =>
       life.held \cap {"context", "browser"} \subseteq life.attempted
  /\ "browser" \in life.attempted =>
       life.held \cap {"context"} \subseteq life.attempted

\* a _close that released all four resources of a started container variant
C28_Witness ==
  /\ browser.variant = "docker"
  /\ life.last_close = "done"
  /\ life.attempted = {"context", "browser", "playwright", "container"}
  /\ world.contexts[1].status = "closed"
  /\ world.browsers[1] = "closed"
  /\ world.playwrights[1] = "stopped"
  /\ world.containers[1] = "stopped"

\* C29: in a start of the container template the retrying connector is
\* entered only after a container launch has succeeded and the grace delay
\* has elapsed; one browsing context is opened per completed start, on the
\* live connection the connector returned, and a start that fails opens none.
C29_StartOrder ==
  browser.variant = "docker" =>
    /\ run # NoRun => life.pc = "connect"
    /\ life.pc \in {"create", "launch", "grace"} => ~life.graced
    /\ life.pc \in {"grace", "driver", "connect", "context"} =>
         /\ browser._container # None
         /\ world.containers[browser._container] = "running"
    /\ life.pc \in {"driver", "connect", "context"} => life.graced
    /\ life.pc = "context" =>
         /\ browser._browser = Len(world.browsers)
         /\ world.browsers[browser._browser] = "open"
    /\ Len(world.contexts) = life.starts_done
    /\ life.starts_done <= life.enters
    /\ \A i \in DOMAIN world.contexts :
         /\ world.contexts[i].on \in DOMAIN world.browsers
         /\ \A j \in DOMAIN world.contexts :
              world.contexts[i].on = world.contexts[j].on => i = j
    /\ (life.pc = "idle" /\ life.scope = "failed") =>
         life.starts_done < life.enters

\* a completed start of the template: container running, grace elapsed, one
\* context on the one connection
C29_Witness ==
  /\ browser.variant = "docker"
  /\ life.pc = "body"
  /\ life.enters = 1
  /\ life.graced
  /\ world.containers = <<"running">>
  /\ world.browsers = <<"open">>
  /\ world.contexts = <<[on |-> 1, status |-> "open"]>>

\* C31: blocking container calls never stall the scheduler: while the container
\* start or the container stop of the instance is in progress, the call runs
\* on a worker and the event loop is free, so another task can take a step.
C31_BlockingCallsOffloaded ==
  life.in_call \in {"container.start", "container.stop"} => life.loop_free

\* the containers the instance created that are not stopped
LiveContainers ==
  {i \in DOMAIN world.containers : world.containers[i] # "stopped"}

\* C36: a container-backed resource owns at most one container at any time:
\* the containers it created and that are not stopped are never more than
\* one, and such a container is the one the instance refers to.
C36_AtMostOneContainer ==
  /\ Cardinality(LiveContainers) <= 1
  /\ \A i \in LiveContainers : browser._container = i

\* C37: a start of the template that fails after the container was launched
\* (the connector or the opening of the context raised) leaves nothing behind:
\* when the failure has reached the caller no container runs and no
\* automation driver is still started.
C37_FailedStartLeavesNothing ==
  (browser.variant = "docker" /\ life.pc = "idle" /\ life.scope = "failed"
     /\ life.raised.origin \in {"connect", "context"}) =>
    /\ \A i \in DOMAIN world.containers : world.containers[i] # "running"
    /\ \A i \in DOMAIN world.playwrights : world.playwrights[i] = "stopped"

\* C38: the closed flag is set only after a _close that completed: while no
\* _close has completed the flag is down, a _close that raised leaves it
\* down, and the next __aexit__ then runs _close again from its first step,
\* on every resource the instance still refers to, released before or not.
C38_ClosedOnlyAfterCompletedClose ==
  /\ browser._closed => life.closes_done >= 1
  /\ life.last_close = "done" => browser._closed
  /\ life.last_close \in {"running", "failed"} => ~browser._closed
  /\ (life.pc = "exit" /\ life.closes_done = 0) => ExitGuard(browser)
  /\ life.pc = "close_context" =>
       /\ life.attempted = {}
       /\ life.held = Held(browser)
       /\ browser._context # None => "context" \in life.held
  /\ (life.last_close = "done" /\ life.closes >= 2 /\ life.closes_done = 1) =>
       life.held \ {"container"} \subseteq life.attempted

\* a second _close begins after the first one closed the context and raised
\* later: the closed context is held again and will be closed again
C38_Witness ==
  /\ life.pc = "close_context"
  /\ life.closes = 2
  /\ life.closes_done = 0
  /\ ~browser._closed
  /\ browser._context # None
  /\ world.contexts[browser._context].status = "closed"
  /\ "context" \in life.held

\* C39: closing a container-backed resource that was never started is a safe
\* no-op: __aexit__ raises nothing, touches no container or connection and
\* leaves the resource closed.
C39_CloseUnstartedIsNoOp ==
  (life.enters = 0 /\ life.exits >= 1 /\ life.pc = "idle") =>
    /\ life.raised = NoRaise
    /\ world = NewWorld
    /\ browser._closed

\* C40: only a DockerException of the container launch is retried by _start:
\* a failure of create_container and a launch failure of another class reach
\* the caller at their first occurrence, without a regeneration of the address
\* and without a further launch; every launch that was followed by another
\* one had raised DockerException.
C40_OnlyLaunchRuntimeErrorRetried ==
  browser.variant = "docker" =>
    /\ life.regenerations <= life.retries
    /\ life.retries <= life.launches
    /\ (life.pc \in {"create", "launch", "launching"}) =>
         /\ life.retries = life.launches
         /\ life.regenerations = life.launches
    /\ life.raised.origin = "create" =>
         /\ life.pc = "idle"
         /\ life.raised.kind # "none"
         /\ life.retries = life.launches
         /\ life.regenerations = life.launches
         /\ life.enters = 1 => Len(world.containers) = life.launches
    /\ (life.raised.origin = "launch" /\ life.raised.kind # "DockerException") =>
         /\ life.pc = "idle"
         /\ life.raised.attempt = life.launches
         /\ life.retries = life.launches - 1
         /\ life.regenerations = life.launches - 1

\* the first launch raised OSError: one launch, no regeneration, the error is
\* with the caller
C40_Witness ==
  /\ browser.variant = "docker"
  /\ life.pc = "idle"
  /\ life.raised = [kind |-> "OSError", origin |-> "launch", attempt |-> 1]
  /\ life.launches = 1
  /\ life.regenerations = 0
  /\ Len(world.containers) = 1

(***************************************************************************)
(* Properties of the factory and of vnc_address (SpecFactory).             *)
(***************************************************************************)
\* the class the flags of the call select
SelectedClass(f) ==
  IF f.local THEN "LocalPlaywrightBrowser"
  ELSE IF f.headless THEN "HeadlessDockerPlaywrightBrowser"
  ELSE "VncDockerPlaywrightBrowser"

\* C21: the factory selects the variant from its flags: local = TRUE gives the
\* local variant whatever headless and the ports are, local = FALSE with
\* headless = TRUE the headless container variant, and local = FALSE with
\* headless = FALSE the remote-desktop container variant; the variant returned
\* is the one constructed.
C21_VariantFromFlags ==
  /\ factory.pc \in {"dump", "done", "read"}
       => factory.browser.class = SelectedClass(factory)
  /\ factory.pc \in {"done", "read"}
       => factory.result.class = SelectedClass(factory)
  /\ factory.pc \in {"call", "playwright_port", "construct", "raised"}
       => factory.browser.class = "none"

\* a call with local and headless both set has returned the local variant
C21_Witness ==
  /\ factory.pc = "done"
  /\ factory.local /\ factory.headless
  /\ factory.asked.playwright_port # Unpinned
  /\ factory.result.class = "LocalPlaywrightBrowser"

\* C22: the ports returned by get_browser_resource_config are the final
\* values: a pinned port is returned unchanged, an unpinned port of a container
\* variant is replaced by the allocated one, and each returned port is the port
\* the configured remote-desktop resource uses, also when a port environment
\* override is set.
C22_ReturnedPortsAreFinal ==
  factory.pc \in {"done", "read"} =>
    /\ factory.asked.playwright_port # Unpinned
         => factory.result.playwright_port = factory.asked.playwright_port
    /\ factory.asked.novnc_port # Unpinned
         => factory.result.novnc_port = factory.asked.novnc_port
    /\ (factory.asked.playwright_port = Unpinned /\ ~factory.local)
         => factory.result.playwright_port = 37367
    /\ (factory.asked.novnc_port = Unpinned
          /\ factory.result.class = "VncDockerPlaywrightBrowser")
         => factory.result.novnc_port = 6080
    /\ factory.result.class = "VncDockerPlaywrightBrowser"
         => /\ factory.result.playwright_port = factory.browser._playwright_port
            /\ factory.result.novnc_port = factory.browser._novnc_port

\* C23: the remote-viewing address is scheme://host:port/vnc.html, and the
\* port suffix is left out exactly when the scheme is https and the port is
\* 443: http with 443 and https with another port keep the suffix.
C23_VncAddress ==
  factory.pc = "read" =>
    LET b == factory.browser
        text == CASE b._novnc_port = 443 -> <<"4", "4", "3">>
                  [] b._novnc_port = 6080 -> <<"6", "0", "8", "0">>
                  [] b._novnc_port = 8080 -> <<"8", "0", "8", "0">>
                  [] OTHER -> <<"?">>
    IN  /\ b._novnc_scheme \in {<<"http">>, <<"https">>}
        /\ (b._novnc_scheme = <<"https">> /\ b._novnc_port = 443)
             => factory.vnc_address
                  = <<"https", "://">> \o b._novnc_host \o <<"/vnc.html">>
        /\ ~(b._novnc_scheme = <<"https">> /\ b._novnc_port = 443)
             => factory.vnc_address
                  = b._novnc_scheme \o <<"://">> \o b._novnc_host \o <<":">>
                      \o text \o <<"/vnc.html">>

\* https with the port set to the text 0443 by the environment: no port suffix
C23_Witness ==
  /\ factory.pc = "read"
  /\ factory.env.novnc_scheme = SetTo(<<"https">>)
  /\ factory.env.novnc_port = SetTo(<<"0", "4", "4", "3">>)
  /\ factory.vnc_address = <<"https", "://", "127.0.0.1", "/vnc.html">>

\* C32: an unpinned port is allocated by reserve-then-release of an ephemeral
\* port: the allocation succeeds whenever some loopback port is free (in
\* every environment here only the two default ports may be taken), the port
\* returned was free when it was probed, and every probe socket is closed
\* before the resource is constructed.
C32_EphemeralAllocation ==
  /\ factory.pc # "raised"
  /\ "playwright" \in factory.allocated =>
       /\ factory.free.playwright
       /\ factory.playwright_port # Unpinned
  /\ "novnc" \in factory.allocated =>
       /\ factory.free.novnc
       /\ factory.novnc_port # Unpinned
  /\ factory.pc \in {"dump", "done", "read"} =>
       \A i \in DOMAIN factory.sockets : factory.sockets[i].status = "closed"

====
